---- MODULE Spec2Model ----
(***************************************************************************)
(* Run recorder and encounter deduplicator of the Rogue Dex / Tableau      *)
(* browser extension (src/background.js), with the popup that drives it    *)
(* (src/unnamed/part_000, lines 188-226).                                   *)
(*                                                                         *)
(* JavaScript values are tagged tuples, so that values of different types  *)
(* are never compared component by component:                              *)
(*     null -> <<"null">>      undefined -> <<"undefined">>                *)
(*     5    -> <<"number", 5>> "a:b"     -> <<"string", "a", ":", "b">>     *)
(* A string is the sequence of its tokens; every ":" is a token of its own *)
(* so that replace(/[:]/g, "-") can be modelled by what it does.            *)
(* An object reference that may be null (currentRun) is <<>> or <<obj>>.    *)
(***************************************************************************)
EXTENDS Integers, Sequences, FiniteSets, TLC

\* ---------------------------------------------------------------- bounds
MaxClock == 1
MaxBattles == 3
MaxStaleSteps == 2
MaxInFlight == 2

\* ------------------------------------------------------------- JS values
JsNull == <<"null">>
JsUndefined == <<"undefined">>
Num(n) == <<"number", n>>
Str(tokens) == <<"string">> \o tokens
TypeOf(v) == IF v[1] = "null" THEN "object" ELSE v[1]
Tokens(v) == Tail(v)

RECURSIVE Digits(_)
\* Number.prototype.toString() of a non-negative integer, digit by digit
Digits(n) ==
  LET d == <<"0", "1", "2", "3", "4", "5", "6", "7", "8", "9">>
  IN  IF n < 10 THEN <<d[n + 1]>> ELSE Digits(n \div 10) \o <<d[(n % 10) + 1]>>

RECURSIVE PadStart(_, _, _)
\* String.prototype.padStart(len, fill) on a token sequence
PadStart(s, len, fill) ==
  IF Len(s) >= len THEN s ELSE PadStart(<<fill>> \o s, len, fill)

\* new Date().toISOString() at clock reading t (milliseconds after the epoch)
ToISOString(t) ==
  <<"1970-01-01T00", ":", "00", ":", "00", ".">> \o PadStart(Digits(t), 3, "0") \o <<"Z">>

\* s.replace(/[:]/g, "-")
ReplaceColons(s) == [i \in 1..Len(s) |-> IF s[i] = ":" THEN "-" ELSE s[i]]

\* ------------------------------------------------------------ the inputs
RunFields ==
  {"run_id", "start_timestamp", "end_timestamp", "result", "final_stage",
   "final_boss", "starter_species", "total_battles", "run_tag"}
DescriptiveFields ==
  {"result", "final_stage", "final_boss", "starter_species", "run_tag"}

\* the runMeta the popup sends with END_RUN
PopupRunMeta ==
  [result |-> Str(<<"Unknown">>), final_stage |-> JsNull, final_boss |-> JsNull,
   starter_species |-> JsNull, run_tag |-> JsNull]

EmptyObject == [k \in {} |-> JsNull]

\* runMeta objects: empty, the popup's, one descriptive field, and Run fields
\* that are not descriptive given by the caller
MetaObjects ==
  {EmptyObject,
   PopupRunMeta,
   [result |-> Str(<<"WIN">>)],
   [total_battles |-> Num(99)],
   [end_timestamp |-> JsNull],
   [run_id |-> Str(<<"X", ":", "1">>)],
   [run_id |-> JsNull]}

\* request.runMeta: absent, a non-object, or an object
RunMetas ==
  {JsUndefined, Str(<<"WIN">>)} \cup {<<"object", m>> : m \in MetaObjects}

FirstEnemy == [species |-> 25, level |-> 7]
SecondEnemy == [species |-> 2019, level |-> 0]
WaveIndexes == {JsUndefined, Num(5), Num(6), Str(<<"5">>)}

Snapshot(enemyParty, waveIndex, arena) ==
  <<"object", [enemyParty |-> enemyParty, waveIndex |-> waveIndex, arena |-> arena]>>

\* a session snapshot: absent (JSON null, or no `session` key), without
\* enemies, with enemies, with enemies and no arena
SessionDatas ==
  {JsUndefined}
    \cup {Snapshot(p, Num(5), TRUE) :
            p \in {JsUndefined, Str(<<"x">>), <<"array", <<>>>>}}
    \cup {Snapshot(<<"array", <<FirstEnemy>>>>, w, TRUE) : w \in WaveIndexes}
    \cup {Snapshot(<<"array", <<FirstEnemy, SecondEnemy>>>>, Num(6), TRUE),
          Snapshot(<<"array", <<FirstEnemy>>>>, Num(5), FALSE)}

\* ------------------------------------------------- helpers of the model
Truthy(v) ==
  CASE v[1] = "null" -> FALSE
    [] v[1] = "undefined" -> FALSE
    [] v[1] = "number" -> v[2] # 0
    [] v[1] = "string" -> Len(v) > 1
    [] OTHER -> TRUE

\* `${v}` : the string conversion of a template literal
TemplateString(v) ==
  CASE v[1] = "string" -> Tokens(v)
    [] v[1] = "number" -> Digits(v[2])
    [] OTHER -> <<v[1]>>

\* ObjectAssign that skips the null values of the source
ObjectAssignSkippingNull(target, source) ==
  [k \in (DOMAIN target) \cup {f \in DOMAIN source : source[f] # JsNull} |->
     IF k \in DOMAIN source /\ source[k] # JsNull THEN source[k] ELSE target[k]]

\* Object.assign(target, source) on plain objects
ObjectAssign(target, source) ==
  [k \in (DOMAIN target) \cup (DOMAIN source) |->
     IF k \in DOMAIN source THEN source[k] ELSE target[k]]

\* Utils.convertPokemonId (extension/libs): regional forms map to their own ids
convertPokemonId(species) == IF species >= 2000 THEN species + 8072 ELSE species

IsArray(v) == v[1] = "array"

\* the module state of background.js lines 4-10 as one value
State(run, buffer, index, wave) ==
  [currentRun |-> run, encounterBuffer |-> buffer, battleIndex |-> index,
   lastLoggedWaveIndex |-> wave]

\* ---------------------------------------------------------- startRun()
NewRun(now) ==
  [run_id |-> Str(<<"run_">> \o ToISOString(now)),
   start_timestamp |-> Str(ToISOString(now)),
   end_timestamp |-> JsNull,
   result |-> JsNull,
   final_stage |-> JsNull,
   final_boss |-> JsNull,
   starter_species |-> JsNull,
   total_battles |-> JsNull,
   run_tag |-> JsNull]

\* startRun with the wave cursor left as it was
startRunKeepingCursor(st, now) ==
  [currentRun |-> <<NewRun(now)>>, encounterBuffer |-> <<>>, battleIndex |-> 0,
   lastLoggedWaveIndex |-> st.lastLoggedWaveIndex]

\* startRun with the buffer left as it was
startRunKeepingBuffer(st, now) ==
  State(<<NewRun(now)>>, st.encounterBuffer, 0, JsNull)

startRun(st, now) == State(<<NewRun(now)>>, <<>>, 0, JsNull)

\* ------------------------------------------------------- endRun(runMeta)
\* FinalizedRun with total_battles counted before the metadata is merged
FinalizedRunCountedFirst(run, runMeta, now, buffer) ==
  LET stamped == [run EXCEPT !.end_timestamp = Str(ToISOString(now)),
                             !.total_battles = Num(Len(buffer))]
  IN  IF Truthy(runMeta) /\ TypeOf(runMeta) = "object"
      THEN ObjectAssign(stamped, runMeta[2])
      ELSE stamped

\* currentRun after lines 36-44: stamped, merged, counted
FinalizedRun(run, runMeta, now, buffer) ==
  LET stamped == [run EXCEPT !.end_timestamp = Str(ToISOString(now))]
      merged == IF Truthy(runMeta) /\ TypeOf(runMeta) = "object"
                THEN ObjectAssign(stamped, runMeta[2])
                ELSE stamped
  IN  [merged EXCEPT !.total_battles = Num(Len(buffer))]

\* "data:application/json;charset=utf-8," + encodeURIComponent(JSON.stringify(payload))
DataUrl(payload) == <<"data:application/json;charset=utf-8,", payload>>

\* the argument of browserApi.downloads.download, lines 46-65
DownloadOptions(run, buffer) ==
  [url |-> DataUrl([run |-> run, encounters |-> buffer]),
   filename |-> Str(<<"pokerogue_runs/">> \o ReplaceColons(Tokens(run.run_id))
                      \o <<".json">>),
   saveAs |-> FALSE]

\* endRun without the reset of the wave cursor
endRunKeepingCursor(st, runMeta, now) ==
  IF st.currentRun = <<>>
  THEN [state |-> st, download |-> <<>>, threw |-> FALSE]
  ELSE LET run == FinalizedRun(st.currentRun[1], runMeta, now, st.encounterBuffer)
       IN  IF TypeOf(run.run_id) # "string"
           THEN [state |-> [st EXCEPT !.currentRun = <<run>>],
                 download |-> <<>>, threw |-> TRUE]
           ELSE [state |-> State(<<>>, <<>>, 0, st.lastLoggedWaveIndex),
                 download |-> <<DownloadOptions(run, st.encounterBuffer)>>,
                 threw |-> FALSE]

\* endRun: the state it leaves, the download it starts, and whether it threw
endRun(st, runMeta, now) ==
  IF st.currentRun = <<>>
  THEN [state |-> st, download |-> <<>>, threw |-> FALSE]
  ELSE LET run == FinalizedRun(st.currentRun[1], runMeta, now, st.encounterBuffer)
       IN  IF TypeOf(run.run_id) # "string"
           THEN \* line 58: run_id.replace is not callable; currentRun stays mutated
                [state |-> [st EXCEPT !.currentRun = <<run>>],
                 download |-> <<>>, threw |-> TRUE]
           ELSE [state |-> State(<<>>, <<>>, 0, JsNull),
                 download |-> <<DownloadOptions(run, st.encounterBuffer)>>,
                 threw |-> FALSE]

\* ------------------------------------- logEncounterFromSession(sessionData)
WaveIndexOf(sessionData) ==
  IF TypeOf(sessionData[2].waveIndex) = "number"
  THEN sessionData[2].waveIndex ELSE JsNull

\* the guards of lines 155-161: a run is active and the snapshot has enemies
Accepted(st, sessionData) ==
  /\ st.currentRun # <<>>
  /\ Truthy(sessionData)
  /\ IsArray(sessionData[2].enemyParty)
  /\ Len(sessionData[2].enemyParty[2]) # 0

\* IsDuplicateWave taking every wave not beyond the cursor for a repeat
IsDuplicateWaveNotBeyond(st, waveIndex) ==
  /\ waveIndex # JsNull
  /\ st.lastLoggedWaveIndex # JsNull
  /\ waveIndex[2] <= st.lastLoggedWaveIndex[2]

\* IsDuplicateWave with the check left out
IsDuplicateWaveNever(st, waveIndex) == FALSE

\* lines 166-169
IsDuplicateWave(st, waveIndex) ==
  waveIndex # JsNull /\ waveIndex = st.lastLoggedWaveIndex

\* the record pushed at lines 171-199
NewEncounter(st, firstEnemy) ==
  [encounter_id |-> Str(TemplateString(st.currentRun[1].run_id) \o <<"_">>
                          \o PadStart(Digits(st.battleIndex), 3, "0")),
   battle_index |-> st.battleIndex,
   enemy_species |-> convertPokemonId(firstEnemy.species),
   enemy_type1 |-> JsNull,
   enemy_type2 |-> JsNull,
   enemy_level |-> IF firstEnemy.level # 0 THEN Num(firstEnemy.level) ELSE JsNull,
   is_boss |-> FALSE,
   encounter_result |-> JsNull,
   enemy_ended_run |-> FALSE,
   notes |-> JsNull]

\* NextWaveCursor that takes the waveIndex also when the snapshot has none
NextWaveCursorAlways(st, waveIndex) == waveIndex

\* NextWaveCursor with the cursor never moved
NextWaveCursorKept(st, waveIndex) == st.lastLoggedWaveIndex

\* lines 201-204
NextWaveCursor(st, waveIndex) ==
  IF waveIndex # JsNull THEN waveIndex ELSE st.lastLoggedWaveIndex

\* logEncounterFromSession with the cursor moved before the guards
logEncounterFromSessionCursorFirst(st, sessionData) ==
  LET moved == IF /\ st.currentRun # <<>>
                  /\ Truthy(sessionData)
                  /\ TypeOf(sessionData[2].waveIndex) = "number"
               THEN [st EXCEPT !.lastLoggedWaveIndex = sessionData[2].waveIndex]
               ELSE st
  IN  IF ~Accepted(st, sessionData) THEN moved
      ELSE LET waveIndex == WaveIndexOf(sessionData)
           IN  IF IsDuplicateWave(st, waveIndex) THEN st
               ELSE State(st.currentRun,
                          Append(st.encounterBuffer,
                                 NewEncounter(st, sessionData[2].enemyParty[2][1])),
                          st.battleIndex + 1,
                          NextWaveCursor(st, waveIndex))

logEncounterFromSession(st, sessionData) ==
  IF ~Accepted(st, sessionData) THEN st
  ELSE LET waveIndex == WaveIndexOf(sessionData)
       IN  IF IsDuplicateWave(st, waveIndex) THEN st
           ELSE State(st.currentRun,
                      Append(st.encounterBuffer,
                             NewEncounter(st, sessionData[2].enemyParty[2][1])),
                      st.battleIndex + 1,
                      NextWaveCursor(st, waveIndex))

\* ---------------------------------------- the overlay calls of a snapshot
\* Outcomes of the two appendPokemonArrayToDiv calls that precede the logging
\* (lines 219-228 and 274-283). They throw for certain when the snapshot is
\* absent (sessionData.enemyParty of undefined) and when a member is visited
\* with no arena (arena.weather, line 114); the helpers of extension/libs they
\* call may throw on other snapshots. "returns": they returned, and no lookup
\* they started is ever answered; "enriches": they returned, and the lookups
\* they started are in flight.
OverlayOutcomes(sessionData) ==
  IF ~Truthy(sessionData) THEN {"throws"}
  ELSE IF /\ IsArray(sessionData[2].enemyParty)
          /\ Len(sessionData[2].enemyParty[2]) # 0
          /\ ~sessionData[2].arena
       THEN {"throws"}
       ELSE {"returns", "enriches", "throws"}

\* sessionData.party, undefined for a snapshot without the key
PartyOf(sessionData) ==
  IF "party" \in DOMAIN sessionData[2] THEN sessionData[2].party ELSE JsUndefined

\* Utils.mapPartyToPokemonArray (extension/libs): the members of a party, in
\* order; of what is not an array, none when it returns
mapPartyToPokemonArray(party) == IF IsArray(party) THEN party[2] ELSE <<>>

RECURSIVE InsertById(_, _)
\* x placed after the entries of the sorted sequence s whose id is not greater
InsertById(s, x) ==
  IF s = <<>> THEN <<x>>
  ELSE IF x.id < s[1].id THEN <<x>> \o s
       ELSE <<s[1]>> \o InsertById(Tail(s), x)

RECURSIVE SortById(_)
\* frontendPokemonArray.sort(sortById), lines 101-105 and 146
SortById(s) ==
  IF s = <<>> THEN <<>>
  ELSE InsertById(SortById(SubSeq(s, 1, Len(s) - 1)), s[Len(s)])

\* one call of appendPokemonArrayToDiv whose forEach has run (lines 108-120):
\* its members with the lookup each waits for ("ability", then "type", then
\* "pushed", or "failed"), its frontendPokemonArray, and whether updateDiv
\* has been called for it
NewBatch(pokemonArray, message) ==
  [message |-> message,
   members |-> [i \in 1..Len(pokemonArray) |->
                  [id |-> convertPokemonId(pokemonArray[i].species)]],
   stage |-> [i \in 1..Len(pokemonArray) |-> "ability"],
   frontendPokemonArray |-> <<>>,
   sent |-> FALSE]

\* the calls of lines 219-228 and 274-283 that leave lookups in flight: one
\* for the enemies, one for the allies, none for a party without members
Launched(sessionData) ==
  LET enemies == mapPartyToPokemonArray(sessionData[2].enemyParty)
      allies == mapPartyToPokemonArray(PartyOf(sessionData))
  IN  (IF enemies = <<>> THEN <<>> ELSE <<NewBatch(enemies, "UPDATE_ENEMIES_DIV")>>)
        \o (IF allies = <<>> THEN <<>> ELSE <<NewBatch(allies, "UPDATE_ALLIES_DIV")>>)

\* IsLastItem that is content with any item
IsLastItemAny(batch, itemsProcessed) == itemsProcessed >= 1

\* line 145
IsLastItem(batch, itemsProcessed) == itemsProcessed = Len(batch.members)

RECURSIVE AllPushed(_, _)
\* what the first n batches have pushed, batch after batch
AllPushed(all, n) ==
  IF n = 0 THEN <<>> ELSE AllPushed(all, n - 1) \o all[n].frontendPokemonArray

\* ArrayOf with one frontendPokemonArray for all the calls
ArrayOfShared(all, b) == AllPushed(all, Len(all))

\* the frontendPokemonArray the callback of a member of batches[b] pushes to
\* (line 109: one array for each call)
ArrayOf(all, b) == all[b].frontendPokemonArray

\* AfterLookup with a callback that writes the looked-up type into the latest
\* encounter
AfterLookupTyped(st, batch) ==
  IF st.encounterBuffer = <<>> THEN st
  ELSE [st EXCEPT !.encounterBuffer[Len(st.encounterBuffer)].enemy_type1 =
                    Str(<<"type">>)]

\* what the callback of lines 121-148 does to the recorder: nothing
AfterLookup(st, batch) == st

\* the callback of lines 121-148 for member i of batches[b]: the batches
\* after it and the updateDiv call it makes, if any
Pushed(all, b, i) ==
  LET array == Append(ArrayOf(all, b), all[b].members[i])
      itemsProcessed ==
        Cardinality({j \in 1..Len(all[b].members) : all[b].stage[j] = "pushed"}) + 1
      last == IsLastItem(all[b], itemsProcessed)
  IN  [batches |-> [all EXCEPT ![b].frontendPokemonArray = array,
                               ![b].stage[i] = "pushed",
                               ![b].sent = @ \/ last],
       update |-> IF last
                  THEN <<[type |-> all[b].message, pokemon |-> SortById(array)]>>
                  ELSE <<>>]

\* the batches that still have a lookup in flight
InFlight(all) ==
  SelectSeq(all, LAMBDA batch :
                   \E i \in 1..Len(batch.members) : batch.stage[i] \in {"ability", "type"})

\* ------------------------------------------------------------- the state
VARIABLES
  clock,                \* the wall clock read by new Date(), in milliseconds
  currentRun,           \* <<>> (null) or <<run object>>
  encounterBuffer,
  battleIndex,
  lastLoggedWaveIndex,  \* JsNull or Num(w)
  download,             \* <<>> or <<argument of downloads.download>> of the last handler
  response,             \* <<>> or <<argument of sendResponse>> of the last handler
  lastEvent,            \* history: the event the last handler ran for
  loggedWaves,          \* history: the numeric waveIndexes behind the buffered encounters
  sinceStart,           \* history of the run that is active or was just emitted: the run id of
                        \* the START_RUN response, accepted snapshots (0, 1, more), appends,
                        \* and the END_RUN and snapshot steps from the first endRun call
                        \* that threw on it, that call included
  burst,                \* history: the accepted snapshots of one wave that follow each other,
                        \* from the latest accepted snapshot back
  startedIds,           \* history: the run ids startRun has assigned so far
  batches,              \* the appendPokemonArrayToDiv calls with a lookup in flight, oldest first
  update                \* <<>> or <<message of the updateDiv call>> of the last step

vars ==
  <<clock, currentRun, encounterBuffer, battleIndex, lastLoggedWaveIndex,
    download, response, lastEvent, loggedWaves, sinceStart, burst, startedIds,
    batches, update>>

recorder == <<currentRun, encounterBuffer, battleIndex, lastLoggedWaveIndex>>

St == State(currentRun, encounterBuffer, battleIndex, lastLoggedWaveIndex)

SetState(st) ==
  /\ currentRun' = st.currentRun
  /\ encounterBuffer' = st.encounterBuffer
  /\ battleIndex' = st.battleIndex
  /\ lastLoggedWaveIndex' = st.lastLoggedWaveIndex

\* seen: the waves behind the buffered encounters; last: the wave behind the
\* latest buffered encounter that has one; repeated: two buffered encounters
\* have the same wave; adjacent: two that follow each other among those that
\* have a wave do
NoWaves == [seen |-> {}, last |-> JsNull, repeated |-> FALSE, adjacent |-> FALSE]

\* wave: the numeric waveIndex of the latest accepted snapshot of the run, if
\* it had one; hit: the cursor was that wave when the first accepted snapshot
\* of the burst arrived; grew: that first snapshot was appended
NoBurst == [wave |-> JsNull, hit |-> FALSE, grew |-> FALSE]

\* the history of a recorder with no run
NotStarted == [run_id |-> JsNull, accepted |-> 0, appended |-> 0, staleSteps |-> 0]

\* type: the handler; active: a run was active when it began; accepted: it
\* reached logEncounterFromSession with a snapshot that passed the guards of
\* lines 155-161; wave: that snapshot's waveIndex as extracted at lines 163-164;
\* repeat: the accepted snapshot before it in the run had the same numeric
\* waveIndex; quiet: the handler left the recorder's state as it was;
\* overlay: "none" for a handler without overlay calls, else whether those
\* calls threw, or returned and logEncounterFromSession was reached ("returns",
\* "enriches")
Event(type, active, accepted, wave, repeat, quiet, overlay) ==
  [type |-> type, active |-> active, accepted |-> accepted, wave |-> wave,
   repeat |-> repeat, quiet |-> quiet, overlay |-> overlay]

Init ==
  /\ clock = 0
  /\ currentRun = <<>>
  /\ encounterBuffer = <<>>
  /\ battleIndex = 0
  /\ lastLoggedWaveIndex = JsNull
  /\ download = <<>>
  /\ response = <<>>
  /\ lastEvent = Event("init", FALSE, FALSE, JsNull, FALSE, TRUE, "none")
  /\ loggedWaves = NoWaves
  /\ sinceStart = NotStarted
  /\ burst = NoBurst
  /\ startedIds = {}
  /\ batches = <<>>
  /\ update = <<>>

\* time passes between two events
Tick ==
  /\ clock < MaxClock
  /\ clock' = clock + 1
  /\ UNCHANGED <<currentRun, encounterBuffer, battleIndex,
                 lastLoggedWaveIndex, download, response, lastEvent, loggedWaves,
                 sinceStart, burst, startedIds, batches, update>>

\* onMessage, request.type === "START_RUN" (lines 237-246)
StartRunMessage ==
  LET st == startRun(St, clock)
  IN  /\ SetState(st)
      /\ response' = <<[success |-> TRUE,
                        run_id |-> IF st.currentRun # <<>>
                                   THEN st.currentRun[1].run_id ELSE JsNull]>>
      /\ download' = <<>>
      /\ lastEvent' = Event("START_RUN", currentRun # <<>>, FALSE, JsNull, FALSE, st = St, "none")
      /\ loggedWaves' = IF st.encounterBuffer = encounterBuffer THEN loggedWaves ELSE NoWaves
      /\ sinceStart' = [run_id |-> response'[1].run_id, accepted |-> 0, appended |-> 0,
                      staleSteps |-> 0]
      /\ burst' = NoBurst
      /\ startedIds' = IF st.currentRun # <<>>
                       THEN startedIds \cup {st.currentRun[1].run_id}
                       ELSE startedIds
      /\ update' = <<>>
      /\ UNCHANGED <<clock, batches>>

\* onMessage, request.type === "END_RUN" (lines 248-253)
EndRunMessage(runMeta) ==
  LET r == endRun(St, IF Truthy(runMeta) THEN runMeta ELSE <<"object", EmptyObject>>,
                  clock)
  IN  /\ (r.threw \/ sinceStart.staleSteps > 0) => sinceStart.staleSteps < MaxStaleSteps
      /\ SetState(r.state)
      /\ download' = r.download
      /\ sinceStart' = IF currentRun = <<>> THEN NotStarted
                       ELSE [sinceStart EXCEPT
                               !.staleSteps = IF r.threw \/ @ > 0 THEN @ + 1 ELSE @]
      /\ response' = IF r.threw THEN <<>> ELSE <<[success |-> TRUE]>>
      /\ lastEvent' = Event("END_RUN", currentRun # <<>>, FALSE, JsNull, FALSE, r.state = St, "none")
      /\ loggedWaves' = IF r.state.encounterBuffer = encounterBuffer
                        THEN loggedWaves ELSE NoWaves
      /\ burst' = IF r.threw THEN burst ELSE NoBurst
      /\ update' = <<>>
      /\ UNCHANGED <<clock, startedIds, batches>>

\* one snapshot delivery that takes the state to `new`, and its history
Deliver(type, sessionData, overlay, new) ==
  LET logged == overlay # "throws"
      accepted == logged /\ Accepted(St, sessionData)
      grew == Len(new.encounterBuffer) = Len(encounterBuffer) + 1
      wave == IF accepted THEN WaveIndexOf(sessionData) ELSE JsNull
      repeat == accepted /\ wave # JsNull /\ wave = burst.wave
  IN  /\ Len(new.encounterBuffer) <= MaxBattles
      /\ sinceStart.staleSteps > 0 => sinceStart.staleSteps < MaxStaleSteps
      /\ SetState(new)
      /\ download' = <<>>
      /\ lastEvent' = Event(type, currentRun # <<>>, accepted, wave, repeat, new = St,
                          overlay)
      /\ loggedWaves' =
           IF grew /\ wave # JsNull
           THEN [seen |-> loggedWaves.seen \cup {wave},
                 last |-> wave,
                 repeated |-> loggedWaves.repeated \/ wave \in loggedWaves.seen,
                 adjacent |-> loggedWaves.adjacent \/ wave = loggedWaves.last]
           ELSE loggedWaves
      /\ sinceStart' =
           IF currentRun = <<>> THEN NotStarted
           ELSE
           [run_id |-> sinceStart.run_id,
            accepted |-> IF accepted /\ sinceStart.accepted < 2
                         THEN sinceStart.accepted + 1 ELSE sinceStart.accepted,
            appended |-> IF grew THEN sinceStart.appended + 1 ELSE sinceStart.appended,
            staleSteps |-> IF sinceStart.staleSteps > 0
                           THEN sinceStart.staleSteps + 1 ELSE 0]
      /\ burst' =
           IF ~accepted THEN burst
           ELSE IF wave = JsNull THEN NoBurst
           ELSE IF repeat THEN burst
           ELSE [wave |-> wave, hit |-> wave = lastLoggedWaveIndex, grew |-> grew]
      /\ batches' = IF overlay = "enriches"
                    THEN batches \o Launched(sessionData) ELSE batches
      /\ Len(batches') <= MaxInFlight
      /\ update' = <<>>
      /\ UNCHANGED <<clock, startedIds>>

\* onMessage, request.type === "BG_GET_SAVEDATA" (lines 213-235)
SaveDataMessage(savedata, overlay) ==
  /\ overlay \in OverlayOutcomes(savedata)
  /\ IF overlay = "throws"
     THEN /\ Deliver("BG_GET_SAVEDATA", savedata, overlay, St)
          /\ response' = <<>>
     ELSE /\ Deliver("BG_GET_SAVEDATA", savedata, overlay,
                      logEncounterFromSession(St, savedata))
          /\ response' = <<[success |-> TRUE]>>

\* the request bodies of the two intercepted paths
Bodies(url) ==
  IF url = "updateall"
  THEN {<<"object", [session |-> sd]>> :
          sd \in {JsUndefined} \cup
                 {Snapshot(<<"array", <<FirstEnemy>>>>, w, TRUE) :
                    w \in {JsUndefined, Num(5)}}}
  ELSE SessionDatas

\* lines 269-271
SessionOf(url, body) ==
  IF url = "updateall" THEN (IF Truthy(body) THEN body[2].session ELSE JsUndefined)
  ELSE body

\* webRequest.onBeforeRequest listener (lines 257-290)
WebRequest(method, url, body, overlay) ==
  LET sessionData == SessionOf(url, body)
  IN  /\ overlay \in OverlayOutcomes(sessionData)
      /\ response' = <<>>
      /\ method = "POST"
      /\ IF overlay = "throws"
         THEN Deliver("webRequest", sessionData, overlay, St)
         ELSE Deliver("webRequest", sessionData, overlay,
                       logEncounterFromSession(St, sessionData))

\* the same listener for a request that is not a POST (lines 259-261)
WebRequestIgnored(method) ==
  /\ method # "POST"
  /\ response' = <<>>
  /\ download' = <<>>
  /\ lastEvent' = Event("webRequest", currentRun # <<>>, FALSE, JsNull, FALSE, TRUE, "none")
  /\ sinceStart' = IF currentRun = <<>> THEN NotStarted ELSE sinceStart
  /\ UNCHANGED <<clock, currentRun, encounterBuffer, battleIndex,
                 lastLoggedWaveIndex, loggedWaves, burst, startedIds, batches>>
  /\ update' = <<>>

Next ==
  \/ Tick
  \/ StartRunMessage
  \/ \E runMeta \in RunMetas : EndRunMessage(runMeta)
  \/ \E savedata \in SessionDatas, overlay \in {"returns", "throws"} :
       SaveDataMessage(savedata, overlay)
  \/ \E url \in {"update", "updateall"}, overlay \in {"returns", "throws"} :
       \E body \in Bodies(url) : WebRequest("POST", url, body, overlay)
  \/ WebRequestIgnored("GET")

Spec == Init /\ [][Next]_vars

\* ------------------------------------------- the lookups of the overlay
\* a step of a lookup's callback: it answers nobody and downloads nothing
Callback(type, st, all, sent) ==
  /\ SetState(st)
  /\ batches' = InFlight(all)
  /\ update' = sent
  /\ download' = <<>>
  /\ response' = <<>>
  /\ lastEvent' = Event(type, currentRun # <<>>, FALSE, JsNull, FALSE, st = St, "none")
  /\ sinceStart' = IF currentRun = <<>> THEN NotStarted ELSE sinceStart
  /\ UNCHANGED <<clock, loggedWaves, burst, startedIds>>

\* the lookup that member i of batches[b] waits for is answered: getAbility
\* (line 120), then getPokemonTypeEffectiveness (line 121), then the callback
\* of lines 122-147
LookupResolves(b, i) ==
  /\ b \in 1..Len(batches)
  /\ i \in 1..Len(batches[b].members)
  /\ batches[b].stage[i] \in {"ability", "type"}
  /\ IF batches[b].stage[i] = "ability"
     THEN Callback("lookup", St, [batches EXCEPT ![b].stage[i] = "type"], <<>>)
     ELSE LET r == Pushed(batches, b, i)
          IN  Callback("lookup", AfterLookup(St, batches[b]), r.batches, r.update)

\* LookupRejects with a rejection handler that gives the run up
LookupRejectsAbortingRun(b, i) ==
  /\ b \in 1..Len(batches)
  /\ i \in 1..Len(batches[b].members)
  /\ batches[b].stage[i] \in {"ability", "type"}
  /\ Callback("lookupFailed", State(<<>>, <<>>, 0, JsNull),
              [batches EXCEPT ![b].stage[i] = "failed"], <<>>)

\* the lookup fails: the promise is rejected and the chain of lines 120-149
\* stops for this member
LookupRejects(b, i) ==
  /\ b \in 1..Len(batches)
  /\ i \in 1..Len(batches[b].members)
  /\ batches[b].stage[i] \in {"ability", "type"}
  /\ Callback("lookupFailed", St, [batches EXCEPT ![b].stage[i] = "failed"], <<>>)

Ally == [species |-> 4, level |-> 9]

\* sessionData with a party of allies
WithParty(sessionData, party) ==
  <<"object", [k \in (DOMAIN sessionData[2]) \cup {"party"} |->
                 IF k = "party" THEN party ELSE sessionData[2][k]]>>

\* snapshots whose lookups are followed: one enemy, two enemies and an ally,
\* no enemies, no arena, absent
EnrichedSessionDatas ==
  {Snapshot(<<"array", <<FirstEnemy>>>>, Num(5), TRUE),
   WithParty(Snapshot(<<"array", <<FirstEnemy, SecondEnemy>>>>, Num(6), TRUE),
             <<"array", <<Ally>>>>),
   Snapshot(JsUndefined, Num(5), TRUE),
   Snapshot(<<"array", <<FirstEnemy>>>>, Num(6), FALSE),
   JsUndefined}

NextEnrichment ==
  \/ StartRunMessage
  \/ EndRunMessage(<<"object", PopupRunMeta>>)
  \/ \E savedata \in EnrichedSessionDatas, overlay \in {"enriches", "throws"} :
       SaveDataMessage(savedata, overlay)
  \/ \E body \in EnrichedSessionDatas, overlay \in {"enriches", "throws"} :
       WebRequest("POST", "update", body, overlay)
  \/ \E b \in 1..MaxInFlight, i \in 1..2 : LookupResolves(b, i)
  \/ \E b \in 1..MaxInFlight, i \in 1..2 : LookupRejects(b, i)

SpecEnrichment == Init /\ [][NextEnrichment]_vars

\* ------------------------------------------------------------ the claims
\* the run document handed to the download sink by the last handler
Doc == download[1].url[2]

\* a step of a handler (every step but Tick leaves the clock alone)
Handled == clock' = clock

\* C1: the document emitted by finalize, whatever the metadata, has
\* total_battles equal to the number N of encounters appended since start, N
\* encounters, and battle_index values 0..N-1 in append order.
C1_DocumentCountsAppends ==
  download # <<>> =>
    /\ Doc.run.total_battles = Num(sinceStart.appended)
    /\ Len(Doc.encounters) = sinceStart.appended
    /\ \A i \in 1..Len(Doc.encounters) : Doc.encounters[i].battle_index = i - 1

C1_Witness ==
  /\ download # <<>>
  /\ lastEvent.type = "END_RUN"
  /\ Len(Doc.encounters) = MaxBattles
  /\ sinceStart.appended = MaxBattles

\* C2 as stated: accepted snapshots that follow each other with the same
\* numeric waveIndex append exactly one encounter, the first, and the later
\* ones change nothing.
C2_BurstAppendsOne ==
  lastEvent.repeat =>
    /\ lastEvent.quiet
    /\ burst.grew

\* C2 amended: such a burst appends its first snapshot unless its waveIndex
\* is the cursor's when the burst begins, and then appends none; the later
\* ones change neither the buffer, the battle index nor the cursor.
C2_BurstAppendsFirstUnlessCursor ==
  lastEvent.repeat =>
    /\ lastEvent.quiet
    /\ burst.grew = ~burst.hit
    /\ battleIndex = Len(encounterBuffer)
    /\ lastLoggedWaveIndex = burst.wave

C2_Witness ==
  /\ lastEvent.repeat
  /\ burst.grew
  /\ ~burst.hit
  /\ Len(encounterBuffer) = 2

\* C3: an accepted snapshot whose numeric waveIndex differs from the single
\* most recently logged wave is appended, also when that wave was logged
\* earlier in the run ([5, 6, 5] appends three encounters).
C3_RevisitIsAppended ==
  [][(/\ Handled
      /\ lastEvent'.accepted
      /\ lastEvent'.wave # JsNull
      /\ lastEvent'.wave # lastLoggedWaveIndex)
     => /\ Len(encounterBuffer') = Len(encounterBuffer) + 1
        /\ encounterBuffer'[Len(encounterBuffer')].battle_index = battleIndex
        /\ lastLoggedWaveIndex' = lastEvent'.wave]_vars

C3_Witness ==
  /\ Len(encounterBuffer) = 3
  /\ sinceStart.accepted = 2
  /\ sinceStart.appended = 3
  /\ loggedWaves.seen = {Num(5), Num(6)}
  /\ loggedWaves.last = Num(5)
  /\ loggedWaves.repeated
  /\ lastEvent.accepted /\ lastEvent.wave = Num(5)

\* C4 as stated: no two encounters of the buffer come from snapshots with the
\* same wave.
C4_NoWaveTwice == ~loggedWaves.repeated

\* C4 amended: no two encounters that follow each other among the buffered
\* encounters that have a wave come from snapshots with the same wave.
C4_NoWaveTwiceInARow ==
  /\ ~loggedWaves.adjacent
  /\ loggedWaves.last = lastLoggedWaveIndex

C4_Witness ==
  /\ lastEvent.repeat
  /\ loggedWaves.seen = {Num(5), Num(6)}
  /\ Len(encounterBuffer) = 2

\* C5 as stated: END_RUN with no active run answers the caller with a failure,
\* emits nothing and leaves the recorder idle as it was.
C5_NoActiveRunIsReported ==
  (lastEvent.type = "END_RUN" /\ ~lastEvent.active) =>
    /\ download = <<>>
    /\ St = State(<<>>, <<>>, 0, JsNull)
    /\ response # <<>>
    /\ ~response[1].success

\* the fields endRun merges from request.runMeta
MergedFields(runMeta) ==
  IF Truthy(runMeta) /\ TypeOf(runMeta) = "object" THEN runMeta[2] ELSE EmptyObject

\* C6 as stated: every field of the metadata overwrites the Run field of the
\* emitted document, null included, and every descriptive field the metadata
\* lacks keeps its prior value.
C6_MetadataOverwrites ==
  [][(Handled /\ lastEvent'.type = "END_RUN" /\ download' # <<>>) =>
     \A runMeta \in RunMetas :
       EndRunMessage(runMeta) =>
         /\ \A k \in DOMAIN MergedFields(runMeta) :
              download'[1].url[2].run[k] = MergedFields(runMeta)[k]
         /\ \A k \in DescriptiveFields \ DOMAIN MergedFields(runMeta) :
              download'[1].url[2].run[k] = currentRun[1][k]]_vars

\* C6 amended: every field of the metadata other than total_battles overwrites
\* the Run field of the emitted document, null included; total_battles is the
\* number of buffered encounters; every descriptive field the metadata lacks
\* keeps its prior value.
C6_MetadataOverwritesButTotal ==
  [][(Handled /\ lastEvent'.type = "END_RUN" /\ download' # <<>>) =>
     \A runMeta \in RunMetas :
       EndRunMessage(runMeta) =>
         /\ \A k \in (DOMAIN MergedFields(runMeta)) \ {"total_battles"} :
              download'[1].url[2].run[k] = MergedFields(runMeta)[k]
         /\ download'[1].url[2].run.total_battles = Num(Len(encounterBuffer))
         /\ \A k \in DescriptiveFields \ DOMAIN MergedFields(runMeta) :
              download'[1].url[2].run[k] = currentRun[1][k]]_vars

C6_Witness ==
  /\ download # <<>>
  /\ lastEvent.type = "END_RUN"
  /\ Doc.run.result = Str(<<"WIN">>)
  /\ \A k \in DescriptiveFields \ {"result"} : Doc.run[k] = JsNull
  /\ Doc.run.end_timestamp # JsNull

\* C7 as stated: the run id of the active run, of the emitted document, of the
\* emitted file's name and of every encounter id in the document is the one
\* startRun assigned and the START_RUN response carried.
C7_RunIdImmutable ==
  /\ currentRun # <<>> => currentRun[1].run_id = sinceStart.run_id
  /\ download # <<>> =>
       /\ Doc.run.run_id = sinceStart.run_id
       /\ download[1].filename =
            Str(<<"pokerogue_runs/">> \o ReplaceColons(Tokens(sinceStart.run_id))
                  \o <<".json">>)
       /\ \A i \in 1..Len(Doc.encounters) :
            LET id == Tokens(Doc.encounters[i].encounter_id)
                run == Tokens(Doc.run.run_id)
            IN  Len(id) > Len(run) /\ SubSeq(id, 1, Len(run)) = run

\* C8 as stated: startRun never assigns a run id it has assigned before.
C8_RunIdsUnique ==
  [][(Handled /\ lastEvent'.type = "START_RUN")
     => currentRun'[1].run_id \notin startedIds]_vars

\* C9 as stated: START_RUN while a run is active leaves that run, its
\* encounters, the battle index and the wave cursor unchanged.
C9_StartWhileActiveKeepsRun ==
  [][(Handled /\ lastEvent'.type = "START_RUN" /\ currentRun # <<>>)
     => UNCHANGED <<currentRun, encounterBuffer, battleIndex,
                    lastLoggedWaveIndex>>]_vars

\* C10: START_RUN leaves a new run with an id made from the start time and
\* every other field null but the start timestamp, an empty buffer, battle
\* index 0 and no wave cursor, and answers with the new run id; the first
\* accepted snapshot after it is appended with battle_index 0 whatever its
\* waveIndex.
C10_StartResets ==
  /\ lastEvent.type = "START_RUN" =>
       /\ currentRun # <<>>
       /\ \E t \in 0..clock : currentRun[1].start_timestamp = Str(ToISOString(t))
       /\ currentRun[1].run_id = Str(<<"run_">> \o Tokens(currentRun[1].start_timestamp))
       /\ \A k \in RunFields \ {"run_id", "start_timestamp"} : currentRun[1][k] = JsNull
       /\ encounterBuffer = <<>>
       /\ battleIndex = 0
       /\ lastLoggedWaveIndex = JsNull
       /\ response = <<[success |-> TRUE, run_id |-> currentRun[1].run_id]>>
  /\ (lastEvent.accepted /\ sinceStart.accepted = 1) =>
       /\ Len(encounterBuffer) = 1
       /\ encounterBuffer[1].battle_index = 0
       /\ battleIndex = 1

C10_Witness ==
  /\ lastEvent.accepted
  /\ sinceStart.accepted = 1
  /\ lastEvent.wave = Num(5)
  /\ Cardinality(startedIds) = 2
  /\ Len(encounterBuffer) = 1

\* C11 as stated: a handler emits a document exactly when it is END_RUN and
\* finds an active run, one document each time, and that END_RUN leaves no
\* active run and an empty buffer (so the documents emitted over any sequence
\* of events are as many as the END_RUNs that found a run, and an END_RUN
\* right after another emits nothing).
C11_OneEmissionPerFinalize ==
  /\ (download # <<>>) = (lastEvent.type = "END_RUN" /\ lastEvent.active)
  /\ Len(download) <= 1
  /\ (lastEvent.type = "END_RUN" /\ lastEvent.active) =>
       /\ currentRun = <<>>
       /\ encounterBuffer = <<>>

\* the snapshots the claim calls rejected: delivered with no active run,
\* absent, or with an enemyParty that is missing, not a collection, or empty
C12_Rejected(sessionData) ==
  \/ currentRun = <<>>
  \/ sessionData \in {JsUndefined, JsNull}
  \/ sessionData[2].enemyParty = JsUndefined
  \/ sessionData[2].enemyParty[1] # "array"
  \/ sessionData[2].enemyParty = <<"array", <<>>>>

\* C12: logEncounterFromSession leaves the run, the buffer, the battle index
\* and the wave cursor as they are for every rejected snapshot, in every
\* state; and a handler whose overlay calls returned and whose snapshot was
\* rejected has changed nothing and, on the message path, has answered.
C12_RejectionIsNoOp ==
  /\ \A sessionData \in SessionDatas :
       C12_Rejected(sessionData) => logEncounterFromSession(St, sessionData) = St
  /\ (lastEvent.overlay = "returns" /\ ~lastEvent.accepted) =>
       /\ lastEvent.quiet
       /\ lastEvent.type = "BG_GET_SAVEDATA" => response = <<[success |-> TRUE]>>

\* a snapshot with wave 5 and no enemies was rejected while the cursor is 6
C12_Witness ==
  /\ lastEvent.overlay = "returns"
  /\ ~lastEvent.accepted
  /\ lastEvent.active
  /\ currentRun # <<>>
  /\ lastLoggedWaveIndex = Num(6)
  /\ Len(encounterBuffer) = 2

\* a snapshot with one enemy, an arena and the wave after the cursor's
C13_NextValid ==
  Snapshot(<<"array", <<FirstEnemy>>>>,
           IF lastLoggedWaveIndex = Num(5) THEN Num(6) ELSE Num(5), TRUE)

\* C13: a handler whose overlay calls threw, a handler that dropped a snapshot
\* without enemies, and a lookup that failed have left the run, the buffer,
\* the battle index and the wave cursor as they were; and if a run is active
\* after one of them, the next valid snapshot is still appended and END_RUN
\* still emits the document of the run with all its encounters.
C13_FailuresLeaveRunIntact ==
  LET failed == \/ lastEvent.overlay = "throws"
                \/ lastEvent.overlay \in {"returns", "enriches"} /\ ~lastEvent.accepted
                \/ lastEvent.type = "lookupFailed"
  IN  failed =>
        /\ lastEvent.quiet
        /\ currentRun # <<>> =>
             /\ logEncounterFromSession(St, C13_NextValid).encounterBuffer
                  = Append(encounterBuffer, NewEncounter(St, FirstEnemy))
             /\ LET r == endRun(St, <<"object", PopupRunMeta>>, clock)
                IN  /\ ~r.threw
                    /\ r.download # <<>>
                    /\ r.download[1].url[2].encounters = encounterBuffer

\* a lookup has failed while a run with an encounter is active
C13_Witness ==
  /\ lastEvent.type = "lookupFailed"
  /\ lastEvent.active
  /\ Len(encounterBuffer) = 1
  /\ batches # <<>>

\* C14 as stated: the i-th encounter of the buffer (from 0) has battle_index
\* i and the encounter_id made of the active run's id, "_" and i padded to
\* three digits; the ids of the buffer differ from each other; the battle
\* index is the length of the buffer.
C14_BufferIsNumbered ==
  /\ battleIndex = Len(encounterBuffer)
  /\ \A i \in 1..Len(encounterBuffer) :
       /\ encounterBuffer[i].battle_index = i - 1
       /\ currentRun # <<>>
       /\ encounterBuffer[i].encounter_id =
            Str(TemplateString(currentRun[1].run_id) \o <<"_">>
                  \o PadStart(Digits(i - 1), 3, "0"))
  /\ \A i, j \in 1..Len(encounterBuffer) :
       i # j => encounterBuffer[i].encounter_id # encounterBuffer[j].encounter_id

\* C15: the buffer of an active run holds the encounters appended since the
\* START_RUN that created the run and no other; an emitted document holds
\* them all, and once it is emitted none of them is left in the buffer for
\* another document.
C15_EncountersBelongToOneRun ==
  /\ currentRun # <<>> => Len(encounterBuffer) = sinceStart.appended
  /\ download # <<>> =>
       /\ Len(Doc.encounters) = sinceStart.appended
       /\ encounterBuffer = <<>>
       /\ currentRun = <<>>

\* the document of a second run, with the two encounters of that run
C15_Witness ==
  /\ download # <<>>
  /\ Cardinality(startedIds) = 2
  /\ Len(Doc.encounters) = 2
  /\ sinceStart.appended = 2

\* C16: an accepted snapshot whose waveIndex is missing or not a number
\* appends one encounter and leaves the wave cursor as it is (so [5, absent, 5]
\* appends two encounters, and [absent, absent] two).
C16_NoWaveIsAppended ==
  [][(Handled /\ lastEvent'.accepted /\ lastEvent'.wave = JsNull)
     => /\ Len(encounterBuffer') = Len(encounterBuffer) + 1
        /\ SubSeq(encounterBuffer', 1, Len(encounterBuffer)) = encounterBuffer
        /\ battleIndex' = battleIndex + 1
        /\ lastLoggedWaveIndex' = lastLoggedWaveIndex]_vars

\* after [5, absent, 5]: the third snapshot met the cursor the second left
\* alone, and the buffer has two encounters
C16_Witness ==
  /\ lastEvent.accepted
  /\ lastEvent.wave = Num(5)
  /\ ~lastEvent.repeat
  /\ lastEvent.quiet
  /\ loggedWaves.seen = {Num(5)}
  /\ Len(encounterBuffer) = 2
  /\ sinceStart.appended = 2

\* C17: a step of a lookup callback, resolved or rejected, in whatever order
\* among the handlers, leaves the run, the buffer, the battle index and the
\* wave cursor as they are, downloads nothing and answers nobody; so a
\* document, whenever it is emitted, has the run id START_RUN answered with,
\* the encounters appended since, and the metadata of its END_RUN.
C17_LookupsLeaveRecorderAlone ==
  /\ lastEvent.type \in {"lookup", "lookupFailed"} =>
       /\ lastEvent.quiet
       /\ download = <<>>
       /\ response = <<>>
  /\ download # <<>> =>
       /\ lastEvent.type = "END_RUN"
       /\ Doc.run.run_id = sinceStart.run_id
       /\ Len(Doc.encounters) = sinceStart.appended
       /\ Doc.run.total_battles = Num(sinceStart.appended)
       /\ Doc.run.result = PopupRunMeta.result

\* a lookup callback has sent an update between two snapshots of a run while
\* another batch is in flight
C17_Witness ==
  /\ lastEvent.type = "lookup"
  /\ update # <<>>
  /\ batches # <<>>
  /\ currentRun # <<>>
  /\ Len(encounterBuffer) = 2

\* C18: the callback that completes the last outstanding member of a batch
\* none of whose lookups failed calls updateDiv, for the first time for that
\* batch, with the batch's message and exactly the batch's members, sorted by
\* id; every other callback step, a rejected lookup among them, and every
\* handler sends no update.
C18_UpdateIsAllOrNothing ==
  [][/\ \A b \in 1..MaxInFlight, i \in 1..2 :
          LookupResolves(b, i) =>
            IF /\ batches[b].stage[i] = "type"
               /\ \A j \in 1..Len(batches[b].members) :
                    j # i => batches[b].stage[j] = "pushed"
            THEN /\ ~batches[b].sent
                 /\ update' = <<[type |-> batches[b].message,
                                 pokemon |-> SortById(batches[b].members)]>>
            ELSE update' = <<>>
     /\ \A b \in 1..MaxInFlight, i \in 1..2 :
          LookupRejects(b, i) => update' = <<>>
     /\ lastEvent'.type \notin {"lookup", "lookupFailed"} => update' = <<>>]_vars

\* the update of a batch of two enemies has been sent while the batch of the
\* allies of the same snapshot is in flight
C18_Witness ==
  /\ update # <<>>
  /\ update[1].type = "UPDATE_ENEMIES_DIV"
  /\ Len(update[1].pokemon) = 2
  /\ update[1].pokemon[1].id < update[1].pokemon[2].id
  /\ batches # <<>>
  /\ batches[1].message = "UPDATE_ALLIES_DIV"

\* C19 as stated: on the network path, a snapshot that arrives while a run is
\* active with a non-empty enemyParty and a waveIndex that is absent or not
\* the cursor's appends one encounter, whatever becomes of its overlay calls
\* and whether or not it has an arena or a party.
C19_LoggingIgnoresOverlay ==
  [][\A url \in {"update", "updateall"}, overlay \in {"returns", "throws"} :
       \A body \in Bodies(url) :
         LET sessionData == SessionOf(url, body)
         IN  (/\ WebRequest("POST", url, body, overlay)
              /\ currentRun # <<>>
              /\ Truthy(sessionData)
              /\ IsArray(sessionData[2].enemyParty)
              /\ sessionData[2].enemyParty[2] # <<>>
              /\ \/ TypeOf(sessionData[2].waveIndex) # "number"
                 \/ sessionData[2].waveIndex # lastLoggedWaveIndex)
             => Len(encounterBuffer') = Len(encounterBuffer) + 1]_vars

\* C20: when no run is active the buffer is empty, the battle index is 0 and
\* there is no wave cursor; and a wave cursor, when there is one, is the
\* waveIndex behind the latest encounter of the current run that has one.
C20_IdleIsClean ==
  /\ currentRun = <<>> =>
       /\ encounterBuffer = <<>>
       /\ battleIndex = 0
       /\ lastLoggedWaveIndex = JsNull
  /\ lastLoggedWaveIndex # JsNull =>
       /\ currentRun # <<>>
       /\ loggedWaves.seen # {}
       /\ lastLoggedWaveIndex = loggedWaves.last

\* no run is active after the document of a run with two encounters was emitted
C20_Witness ==
  /\ currentRun = <<>>
  /\ lastEvent.type = "END_RUN"
  /\ lastEvent.active
  /\ download # <<>>
  /\ Len(Doc.encounters) = 2
====
